---- MODULE Spec2Model ----
(***************************************************************************)
(* State-machine model of the search/chat session logic of                 *)
(* tedxsdg-search-frontend: the TalkPanel component (mount effect, search  *)
(* dispatch, result handling, transcript forwarding), the ChatPanel        *)
(* handlers that write the shared chat log, and the Redux store fields     *)
(* both panels share.  One step of the model is one browser task: an       *)
(* effect run, an event handler, or the continuation of an awaited         *)
(* request together with the microtasks it schedules.                      *)
(***************************************************************************)
EXTENDS Integers, Sequences, FiniteSets, TLC

VARIABLES
    mode,               \* build/runtime: "prod", "devStrict", "devSingle"
    phase,              \* lifecycle position of the TalkPanel instance
    searchQuery,        \* useState(determineInitialKeyword())
    isStrictMode,       \* useRef(false)
    mountCounter,       \* useRef(0)
    abortControllerRef, \* useRef<AbortController | null>(null); 0 is null
    isSearchInProgress, \* useRef(false)
    sentMessagesRef,    \* useRef(new Set())
    debouncePending,    \* whether the lodash debounce timer is armed
    talks,              \* store: state.talk.talks
    selectedTalk,       \* store: state.talk.selectedTalk; <<>> is null
    isLoading,          \* store: state.api.isLoading
    error,              \* store: state.api.error
    messages,           \* store: state.chat.messages
    chatInput,          \* ChatPanel useState('')
    inflight,           \* HTTP requests issued by axios.get and not settled
    aborted,            \* AbortControllers whose abort() has been called
    triggerCount,       \* history: number of performSearch calls so far
    lastTrigger,        \* history: the latest performSearch call
    mountSearches,      \* history: performSearch calls made by the mount effect
    lastDone,           \* history: the last settled request and what was done
    everSelected,       \* history: titles handleSearchResults has selected
    chatSpans,          \* telemetry: per 'send_message' span, its end() calls
    isFullScreen,       \* ChatPanel: useState(false)
    fullscreenElement,  \* whether document.fullscreenElement is set
    lastRender,         \* history: what the last render of Observability did
    activeWatchSpanRef, \* useRef(null): index of the span in watchSpans, 0 for null
    watchSpans,         \* telemetry: the 'watch_video' spans started, in order
    watchPending,       \* selectedTalk changed and the effect on it has not run yet
    searchSpans,        \* telemetry: per 'search_talks' span, its end() calls
    transcriptsSent,    \* history: per title, the transcript messages dispatched
    lastOp,             \* history: the handler that ran last
    now                 \* clock, in ms

vars ==
    <<mode, phase, searchQuery, isStrictMode, mountCounter, abortControllerRef,
      isSearchInProgress, sentMessagesRef, debouncePending, talks, selectedTalk,
      isLoading, error, messages, chatInput, inflight, aborted, triggerCount,
      lastTrigger, mountSearches, searchSpans, lastDone, everSelected, transcriptsSent, lastOp, now,
      activeWatchSpanRef, watchSpans, watchPending, chatSpans,
      isFullScreen, fullscreenElement, lastRender>>

pageVars ==
    <<isFullScreen, fullscreenElement, lastRender>>

watchVars ==
    <<activeWatchSpanRef, watchSpans, watchPending>>

(***************************************************************************)
(* Bounds of the model.                                                    *)
(***************************************************************************)
MaxTriggers == 2
MaxResults == 2
MaxMessages == 2
MaxChats == 2
MaxTime == 500
TickMs == 250

(***************************************************************************)
(* Program constants.                                                      *)
(***************************************************************************)
DebounceWait == 500

Modes == {"prod", "devStrict", "devSingle"}

isDevelopment ==
    mode # "prod"

NoError == "null"

ErrorFetching == "Error fetching talks."

(***************************************************************************)
(* Strings are sequences of one-character strings.                         *)
(***************************************************************************)
toLowerChar(c) ==
    IF c = "A" THEN "a" ELSE IF c = "B" THEN "b" ELSE c

toLowerCase(s) ==
    [i \in 1..Len(s) |-> toLowerChar(s[i])]

RECURSIVE trimStart(_)
trimStart(s) ==
    IF s # <<>> /\ Head(s) = " " THEN trimStart(Tail(s)) ELSE s

RECURSIVE trimEnd(_)
trimEnd(s) ==
    IF s # <<>> /\ s[Len(s)] = " " THEN trimEnd(SubSeq(s, 1, Len(s) - 1)) ELSE s

trim(s) ==
    trimEnd(trimStart(s))

trimmedQuery(query) ==
    toLowerCase(trim(query))

Queries ==
    {<<"A">>, <<"b", " ">>}

(***************************************************************************)
(* Search results: the documents the backend may return and their mapping  *)
(* to Talk records.                                                        *)
(***************************************************************************)
Undefined == "undefined"

Documents ==
    { [slug |-> <<"a", "_", "b">>, presenterDisplayName |-> "P1",
       sdg_tags |-> <<"sdg1">>, transcript |-> "T1"],
      [slug |-> <<"a", "_", "b">>, presenterDisplayName |-> Undefined,
       sdg_tags |-> <<>>, transcript |-> "T2"],
      [slug |-> <<"c">>, presenterDisplayName |-> "P3",
       sdg_tags |-> <<"zz">>, transcript |-> Undefined] }

ResultLists ==
    UNION {[1..n -> Documents] : n \in 0..MaxResults}

orEmpty(v) ==
    IF v = Undefined THEN "" ELSE v

replaceUnderscores(slug) ==
    [i \in 1..Len(slug) |-> IF slug[i] = "_" THEN " " ELSE slug[i]]

mapResult(result) ==
    [presenterDisplayName |-> orEmpty(result.presenterDisplayName),
     title |-> replaceUnderscores(result.slug),
     url |-> <<"https://www.ted.com/talks/">> \o result.slug,
     sdg_tags |-> result.sdg_tags,
     transcript |-> orEmpty(result.transcript)]

Titles ==
    {replaceUnderscores(result.slug) : result \in Documents}

mapResults(results) ==
    [i \in 1..Len(results) |-> mapResult(results[i])]

sdgTitleMap ==
    [t \in {"sdg1"} |-> "No Poverty"]

getSdgTitles(sdgTags) ==
    [i \in 1..Len(sdgTags) |->
        IF sdgTags[i] \in DOMAIN sdgTitleMap THEN sdgTitleMap[sdgTags[i]]
        ELSE sdgTags[i]]

RECURSIVE join(_, _)
join(parts, sep) ==
    IF parts = <<>> THEN <<>>
    ELSE IF Len(parts) = 1 THEN <<parts[1]>>
    ELSE <<parts[1], sep>> \o join(Tail(parts), sep)

(***************************************************************************)
(* handleSearchResults and sendTranscriptAsMessage, as functions.          *)
(***************************************************************************)
reorderedTalks(data, randomIndex) ==
    <<data[randomIndex]>> \o
        SelectSeq(data, LAMBDA talk : talk.title # data[randomIndex].title)

transcriptMessage(talk) ==
    [persona |-> talk.presenterDisplayName,
     role |-> "bot",
     sender |-> "bot",
     text |-> <<talk.transcript, " -- ">> \o talk.title \o <<"\n\n">>
                \o join(getSdgTitles(talk.sdg_tags), ", "),
     hidden |-> FALSE]

neverSent(sent, talk) ==
    FALSE

alreadySent(sent, talk) ==
    talk.title \in sent

sentForgotten(sent, talk) ==
    sent

sentAfter(sent, talk) ==
    sent \cup {talk.title}

(***************************************************************************)
(* The chat slice of the store.                                            *)
(***************************************************************************)
userMessage(text) ==
    [persona |-> "", role |-> "user", sender |-> "user", text |-> text,
     hidden |-> FALSE]

sendMessage(log, message) ==
    Append(log, message)

clearMessages(log) ==
    <<>>

hasVisibleMessages ==
    \E i \in DOMAIN messages : ~messages[i].hidden

ChatInputs ==
    {<<>>, <<" ">>, <<"h", " ">>}

(***************************************************************************)
(* Initial state: the component has been rendered, no effect has run.      *)
(***************************************************************************)
NoTrigger ==
    [id |-> 0, query |-> <<>>, source |-> "none", at |-> 0, issued |-> FALSE]

NoneDone ==
    [id |-> 0, outcome |-> "none", handled |-> FALSE, data |-> <<>>,
     index |-> 0, threw |-> FALSE, unmounted |-> FALSE]

Init ==
    /\ mode \in Modes
    /\ phase = "new"
    /\ searchQuery \in Queries
    /\ isStrictMode = FALSE
    /\ mountCounter = 0
    /\ abortControllerRef = 0
    /\ isSearchInProgress = FALSE
    /\ sentMessagesRef = {}
    /\ debouncePending = FALSE
    /\ talks = <<>>
    /\ selectedTalk = <<>>
    /\ isLoading = FALSE
    /\ error = NoError
    /\ messages = <<>>
    /\ chatInput = <<>>
    /\ chatSpans = <<>>
    /\ isFullScreen = FALSE
    /\ fullscreenElement = FALSE
    /\ lastRender = [rendered |-> FALSE, window |-> FALSE, outcome |-> "none",
                     constructed |-> FALSE, started |-> FALSE, result |-> "none"]
    /\ inflight = {}
    /\ aborted = {}
    /\ triggerCount = 0
    /\ lastTrigger = NoTrigger
    /\ mountSearches = 0
    /\ lastDone = NoneDone
    /\ everSelected = {}
    /\ searchSpans = <<>>
    /\ activeWatchSpanRef = 0
    /\ watchSpans = <<>>
    /\ watchPending = FALSE
    /\ transcriptsSent = [title \in Titles |-> 0]
    /\ lastOp = "init"
    /\ now = 0

(***************************************************************************)
(* performSearch, up to its await of axios.get.                            *)
(***************************************************************************)
neverSkip(inProgress) ==
    FALSE

skipSearch(inProgress) ==
    inProgress

abortTargets(ref) ==
    IF ref = 0 THEN {} ELSE {ref}

errorKept(current) ==
    current

errorOnIssue(current) ==
    NoError

spanLeftOpen(ends) ==
    ends

spanEnd(ends) ==
    ends + 1

startActiveSpan(spans) ==
    Append(spans, 0)

trigger(id, query, source, issued) ==
    [id |-> id, query |-> query, source |-> source, at |-> now,
     issued |-> issued]

performSearch(query, source) ==
    LET id == triggerCount + 1 IN
    /\ triggerCount' = id
    /\ mountSearches' = IF source = "mount" THEN mountSearches + 1
                        ELSE mountSearches
    /\ IF skipSearch(isSearchInProgress)
       THEN /\ lastTrigger' = trigger(id, query, source, FALSE)
            /\ searchSpans' = [startActiveSpan(searchSpans) EXCEPT ![id] = spanEnd(@)]
            /\ UNCHANGED <<aborted, abortControllerRef, isSearchInProgress,
                           isLoading, error, inflight>>
       ELSE /\ aborted' = aborted \cup abortTargets(abortControllerRef)
            /\ abortControllerRef' = id
            /\ isSearchInProgress' = TRUE
            /\ isLoading' = TRUE
            /\ error' = errorOnIssue(error)
            /\ inflight' = inflight \cup
                   {[id |-> id, query |-> trimmedQuery(query), signal |-> id,
                     at |-> now]}
            /\ lastTrigger' = trigger(id, query, source, TRUE)
            /\ searchSpans' = startActiveSpan(searchSpans)

(***************************************************************************)
(* The effect on selectedTalk that manages the 'watch_video' span.         *)
(***************************************************************************)
watchSpan(talk) ==
    [title |-> talk.title, presenter |-> talk.presenterDisplayName,
     url |-> talk.url, sdg_tags |-> talk.sdg_tags, ends |-> 0]

refKept(ref) ==
    ref

refCleared(ref) ==
    0

endActiveWatchSpan(watch) ==
    IF watch.ref # 0
    THEN [ref |-> refCleared(watch.ref),
          spans |-> [watch.spans EXCEPT ![watch.ref].ends = spanEnd(@)]]
    ELSE watch

watchEffect(watch, selected) ==
    LET ended == endActiveWatchSpan(watch) IN
    IF selected # <<>>
    THEN [ref |-> Len(ended.spans) + 1,
          spans |-> Append(ended.spans, watchSpan(selected[1]))]
    ELSE ended

watchNow ==
    [ref |-> activeWatchSpanRef, spans |-> watchSpans]

WatchEffect ==
    /\ phase = "mounted"
    /\ watchPending
    /\ LET after == watchEffect(endActiveWatchSpan(watchNow), selectedTalk) IN
        /\ activeWatchSpanRef' = after.ref
        /\ watchSpans' = after.spans
    /\ watchPending' = FALSE
    /\ lastOp' = "watchEffect"
    /\ UNCHANGED <<pageVars, chatSpans, mode, phase, searchQuery, isStrictMode, mountCounter,
                   abortControllerRef, isSearchInProgress, sentMessagesRef,
                   debouncePending, talks, selectedTalk, isLoading, error,
                   messages, chatInput, inflight, aborted, triggerCount,
                   lastTrigger, mountSearches, searchSpans, lastDone,
                   everSelected, transcriptsSent, now>>

(***************************************************************************)
(* The mount effect and its cleanup.                                       *)
(***************************************************************************)
alwaysSearches(isDev, counter) ==
    TRUE

mountEffectSearches(isDev, counter) ==
    ~isDev \/ counter # 1

mountEffectStrict(isDev, counter, strict) ==
    IF isDev THEN counter = 1 ELSE strict

MountEffect ==
    /\ phase \in {"new", "strictUnmounted"}
    /\ LET counter == IF isDevelopment THEN mountCounter + 1 ELSE mountCounter
       IN /\ mountCounter' = counter
          /\ isStrictMode' = mountEffectStrict(isDevelopment, counter, isStrictMode)
          /\ IF mountEffectSearches(isDevelopment, counter)
             THEN performSearch(searchQuery, "mount")
             ELSE UNCHANGED <<aborted, abortControllerRef, isSearchInProgress,
                              isLoading, error, inflight, triggerCount, lastTrigger, mountSearches, searchSpans>>
    /\ phase' = IF mode = "devStrict" /\ phase = "new" THEN "strictMounted"
                ELSE "mounted"
    /\ LET after == watchEffect(watchNow, selectedTalk) IN
        /\ activeWatchSpanRef' = after.ref
        /\ watchSpans' = after.spans
    /\ watchPending' = FALSE
    /\ lastOp' = "effect"
    /\ UNCHANGED <<pageVars, chatSpans, mode, searchQuery, sentMessagesRef, debouncePending, talks,
                   selectedTalk, messages, chatInput, lastDone, everSelected, transcriptsSent, now>>

cleanupAborts(isDev, strict) ==
    isDev /\ ~strict

EffectCleanup ==
    /\ phase \in {"strictMounted", "mounted"}
    /\ aborted' = IF cleanupAborts(isDevelopment, isStrictMode)
                  THEN aborted \cup abortTargets(abortControllerRef)
                  ELSE aborted
    /\ debouncePending' = FALSE
    /\ LET after == endActiveWatchSpan(watchNow) IN
        /\ activeWatchSpanRef' = after.ref
        /\ watchSpans' = after.spans
    /\ watchPending' = FALSE
    /\ phase' = IF phase = "strictMounted" THEN "strictUnmounted" ELSE "unmounted"
    /\ lastOp' = IF phase = "strictMounted" THEN "cleanup" ELSE "unmount"
    /\ UNCHANGED <<pageVars, chatSpans, mode, searchQuery, isStrictMode, mountCounter,
                   abortControllerRef, isSearchInProgress, sentMessagesRef,
                   talks, selectedTalk, isLoading, error, messages, chatInput,
                   inflight, triggerCount, lastTrigger, mountSearches, searchSpans, lastDone, everSelected, transcriptsSent, now>>

(***************************************************************************)
(* The search input, the Enter key and the Search button.                  *)
(***************************************************************************)
SetSearchQuery ==
    /\ phase = "mounted"
    /\ \E q \in Queries :
        /\ q # searchQuery
        /\ searchQuery' = q
    /\ lastOp' = "setQuery"
    /\ UNCHANGED <<pageVars, chatSpans, watchVars, mode, phase, isStrictMode, mountCounter, abortControllerRef,
                   isSearchInProgress, sentMessagesRef, debouncePending, talks,
                   selectedTalk, isLoading, error, messages, chatInput, inflight,
                   aborted, triggerCount, lastTrigger, mountSearches, searchSpans, lastDone, everSelected, transcriptsSent, now>>

PressEnter ==
    /\ phase = "mounted"
    /\ triggerCount < MaxTriggers
    /\ performSearch(searchQuery, "enter")
    /\ lastOp' = "enter"
    /\ UNCHANGED <<pageVars, chatSpans, watchVars, mode, phase, searchQuery, isStrictMode, mountCounter,
                   sentMessagesRef, debouncePending, talks, selectedTalk,
                   messages, chatInput, lastDone, everSelected, transcriptsSent, now>>

ClickSearch ==
    /\ phase = "mounted"
    /\ ~isLoading
    /\ triggerCount < MaxTriggers
    /\ performSearch(searchQuery, "click")
    /\ lastOp' = "click"
    /\ UNCHANGED <<pageVars, chatSpans, watchVars, mode, phase, searchQuery, isStrictMode, mountCounter,
                   sentMessagesRef, debouncePending, talks, selectedTalk,
                   messages, chatInput, lastDone, everSelected, transcriptsSent, now>>

(***************************************************************************)
(* performSearch after its await: try / catch / finally.                   *)
(***************************************************************************)
Failures == {"status", "network", "malformed"}

Outcomes == {"ok", "cancelled"} \cup Failures

handlesResults(strict) ==
    ~strict

storageOutcomes(handled) ==
    IF handled THEN {"stored", "threw"} ELSE {"stored"}

searchFlagLeftSet ==
    isSearchInProgress

searchInProgressAfterFinally ==
    FALSE

loadingLeftSet ==
    isLoading

loadingAfterFinally ==
    FALSE

possibleOutcomes(signal) ==
    IF signal \in aborted THEN {"cancelled"} ELSE {"ok"} \cup Failures

possibleResults(outcome) ==
    IF outcome = "ok" THEN ResultLists ELSE {<<>>}

randomIndexes(handled, data) ==
    IF handled /\ data # <<>> THEN 1..Len(data) ELSE {0}

SettleRequest ==
    \E r \in inflight :
    \E outcome \in possibleOutcomes(r.signal) :
    \E results \in possibleResults(outcome) :
        /\ LET data == mapResults(results)
               handled == outcome = "ok" /\ handlesResults(isStrictMode)
           IN \E randomIndex \in randomIndexes(handled, data) :
              \E storage \in storageOutcomes(handled) :
                /\ IF randomIndex # 0
                   THEN LET randomTalk == data[randomIndex] IN
                        /\ talks' = reorderedTalks(data, randomIndex)
                        /\ selectedTalk' = <<randomTalk>>
                        /\ everSelected' = everSelected \cup {randomTalk.title}
                        /\ watchPending' = (watchPending \/ phase = "mounted")
                        /\ IF alreadySent(sentMessagesRef, randomTalk)
                           THEN UNCHANGED <<sentMessagesRef, messages, transcriptsSent>>
                           ELSE /\ sentMessagesRef' = sentAfter(sentMessagesRef, randomTalk)
                                /\ messages' = sendMessage(messages, transcriptMessage(randomTalk))
                                /\ transcriptsSent' = [transcriptsSent EXCEPT ![randomTalk.title] = @ + 1]
                   ELSE /\ talks' = IF handled THEN data ELSE talks
                        /\ UNCHANGED <<selectedTalk, everSelected, transcriptsSent, watchPending,
                                       sentMessagesRef, messages>>
                /\ lastDone' = [id |-> r.id, outcome |-> outcome,
                                handled |-> handled,
                                data |-> IF handled THEN data ELSE <<>>,
                                index |-> randomIndex,
                                threw |-> storage = "threw",
                                unmounted |-> phase = "unmounted"]
                /\ error' = IF outcome \in Failures \/ storage = "threw"
                            THEN ErrorFetching ELSE error
        /\ isLoading' = loadingAfterFinally
        /\ isSearchInProgress' = searchInProgressAfterFinally
        /\ searchSpans' = [searchSpans EXCEPT ![r.id] = spanEnd(@)]
        /\ UNCHANGED <<activeWatchSpanRef, watchSpans>>
        /\ inflight' = inflight \ {r}
        /\ lastOp' = "complete"
        /\ UNCHANGED <<pageVars, chatSpans, mode, phase, searchQuery, isStrictMode, mountCounter,
                       abortControllerRef, debouncePending, chatInput, aborted,
                       triggerCount, lastTrigger, mountSearches, now>>

(***************************************************************************)
(* The Shuffle button.                                                     *)
(***************************************************************************)
shuffleArray(list) ==
    LET n == Len(list)
        orders == {f \in [1..n -> 1..n] :
                    \A i, j \in 1..n : f[i] = f[j] => i = j}
    IN {[i \in 1..n |-> list[f[i]]] : f \in orders}

ShuffleTalks ==
    /\ phase = "mounted"
    /\ talks' \in shuffleArray(talks)
    /\ lastOp' = "shuffle"
    /\ UNCHANGED <<pageVars, chatSpans, watchVars, mode, phase, searchQuery, isStrictMode, mountCounter,
                   abortControllerRef, isSearchInProgress, sentMessagesRef,
                   debouncePending, selectedTalk, isLoading, error, messages,
                   chatInput, inflight, aborted, triggerCount, lastTrigger,
                   mountSearches, searchSpans, lastDone, everSelected, transcriptsSent, now>>

(***************************************************************************)
(* ChatPanel handlers.                                                     *)
(***************************************************************************)
chatVarsUnchanged ==
    UNCHANGED <<pageVars, watchVars, mode, phase, searchQuery, isStrictMode, mountCounter,
                abortControllerRef, isSearchInProgress, sentMessagesRef,
                debouncePending, talks, selectedTalk, isLoading, error,
                inflight, aborted, triggerCount, lastTrigger, mountSearches, searchSpans,
                lastDone, everSelected, transcriptsSent, now>>

SetChatInput ==
    /\ \E text \in ChatInputs :
        /\ text # chatInput
        /\ chatInput' = text
    /\ lastOp' = "setChatInput"
    /\ UNCHANGED <<messages, chatSpans>>
    /\ chatVarsUnchanged

HandleChat ==
    /\ Len(messages) < MaxMessages
    /\ LET trimmedMessage == trim(chatInput) IN
       IF trimmedMessage # <<>>
       THEN /\ Len(chatSpans) < MaxChats
            /\ chatSpans' = startActiveSpan(chatSpans)
            /\ messages' = sendMessage(messages, userMessage(trimmedMessage))
       ELSE UNCHANGED <<messages, chatSpans>>
    /\ lastOp' = "chat"
    /\ UNCHANGED <<chatInput>>
    /\ chatVarsUnchanged

dispatchOutcomes ==
    {"fulfilled", "rejected"}

inputAlwaysCleared(outcome, input) ==
    <<>>

inputAfterDispatch(outcome, input) ==
    IF outcome = "fulfilled" THEN <<>> ELSE input

ChatDispatchSettles ==
    \E span \in {i \in 1..Len(chatSpans) : chatSpans[i] = 0} :
    \E outcome \in dispatchOutcomes :
        /\ chatInput' = inputAfterDispatch(outcome, chatInput)
        /\ chatSpans' = [chatSpans EXCEPT ![span] = spanEnd(@)]
        /\ lastOp' = IF outcome = "fulfilled" THEN "chatFulfilled"
                      ELSE "chatRejected"
        /\ UNCHANGED messages
        /\ chatVarsUnchanged

HandleSpeechResult ==
    /\ Len(messages) < MaxMessages
    /\ \E finalResult \in ChatInputs :
        LET trimmedResult == trim(finalResult) IN
        IF trimmedResult # <<>>
        THEN /\ messages' = sendMessage(messages, userMessage(trimmedResult))
             /\ chatInput' = <<>>
        ELSE UNCHANGED <<messages, chatInput>>
    /\ lastOp' = "speech"
    /\ UNCHANGED <<chatSpans>>
    /\ chatVarsUnchanged

HandleClearChatNoDispatch ==
    /\ lastOp' = "clearChat"
    /\ UNCHANGED <<messages, chatInput, chatSpans>>
    /\ chatVarsUnchanged

HandleClearChat ==
    /\ messages' = clearMessages(messages)
    /\ lastOp' = "clearChat"
    /\ UNCHANGED <<chatInput, chatSpans>>
    /\ chatVarsUnchanged

(***************************************************************************)
(* ChatPanel: the fullscreen toggle.                                       *)
(***************************************************************************)
panelsUnchanged ==
    UNCHANGED <<chatSpans, watchVars, mode, phase, searchQuery,
                isStrictMode, mountCounter, abortControllerRef,
                isSearchInProgress, sentMessagesRef, debouncePending, talks,
                selectedTalk, isLoading, error, messages, chatInput, inflight,
                aborted, triggerCount, lastTrigger, mountSearches, searchSpans,
                lastDone, everSelected, transcriptsSent, now>>

FullscreenOutcomes ==
    {"resolved", "rejected"}

elementAfterToggle(flag, element, outcome) ==
    IF ~flag
    THEN (IF outcome = "resolved" THEN TRUE ELSE element)
    ELSE IF element
         THEN (IF outcome = "resolved" THEN FALSE ELSE element)
         ELSE element

ToggleFullScreenMode ==
    /\ \E outcome \in FullscreenOutcomes :
        fullscreenElement' = elementAfterToggle(isFullScreen, fullscreenElement, outcome)
    /\ isFullScreen' = ~isFullScreen
    /\ lastOp' = "toggleFullScreen"
    /\ UNCHANGED lastRender
    /\ panelsUnchanged

(***************************************************************************)
(* The Observability component of the root layout.                         *)
(***************************************************************************)
SdkOutcomes ==
    {"ok", "constructorThrows", "startThrows"}

rendersAnywhere(hasWindow) ==
    FALSE

windowUndefined(hasWindow) ==
    ~hasWindow

rethrown(outcome) ==
    "throws"

caught(outcome) ==
    "null"

render(hasWindow, outcome) ==
    IF windowUndefined(hasWindow)
    THEN [rendered |-> TRUE, window |-> hasWindow, outcome |-> outcome,
          constructed |-> FALSE, started |-> FALSE, result |-> "null"]
    ELSE [rendered |-> TRUE, window |-> hasWindow, outcome |-> outcome,
          constructed |-> TRUE,
          started |-> outcome # "constructorThrows",
          result |-> IF outcome = "ok" THEN "null" ELSE caught(outcome)]

Observability ==
    /\ \E hasWindow \in BOOLEAN :
       \E outcome \in SdkOutcomes :
        lastRender' = render(hasWindow, outcome)
    /\ lastOp' = "render"
    /\ UNCHANGED <<isFullScreen, fullscreenElement>>
    /\ panelsUnchanged

(***************************************************************************)
(* Passage of time.                                                        *)
(***************************************************************************)
Tick ==
    /\ now + TickMs <= MaxTime
    /\ now' = now + TickMs
    /\ lastOp' = "tick"
    /\ UNCHANGED <<pageVars, chatSpans, watchVars, mode, phase, searchQuery, isStrictMode, mountCounter,
                   abortControllerRef, isSearchInProgress, sentMessagesRef,
                   debouncePending, talks, selectedTalk, isLoading, error,
                   messages, chatInput, inflight, aborted, triggerCount,
                   lastTrigger, mountSearches, searchSpans, lastDone,
                   everSelected, transcriptsSent>>

SearchNext ==
    \/ MountEffect
    \/ EffectCleanup
    \/ SetSearchQuery
    \/ PressEnter
    \/ ClickSearch
    \/ SettleRequest

ChatNext ==
    \/ SetChatInput
    \/ HandleChat
    \/ ChatDispatchSettles
    \/ HandleSpeechResult

(***************************************************************************)
(* The search flow of the TalkPanel, with the chat history cleared at any  *)
(* moment from the ChatPanel.                                              *)
(***************************************************************************)
Next ==
    \/ SearchNext
    \/ HandleClearChat

Spec ==
    Init /\ [][Next]_vars

(***************************************************************************)
(* The session: the initial search of the talk panel and the chat panel,   *)
(* both writing the shared store.                                          *)
(***************************************************************************)
SessionNext ==
    \/ MountEffect
    \/ EffectCleanup
    \/ SettleRequest
    \/ ChatNext
    \/ HandleClearChat

SessionSpec ==
    Init /\ [][SessionNext]_vars

(***************************************************************************)
(* The page without the search: the chat panel and the root layout.        *)
(***************************************************************************)
PageNext ==
    \/ ChatNext
    \/ HandleClearChat
    \/ ToggleFullScreenMode
    \/ Observability

PageSpec ==
    Init /\ [][PageNext]_vars

(***************************************************************************)
(* The search flow with the re-render that runs the effect on selectedTalk.*)
(***************************************************************************)
WatchNext ==
    \/ SearchNext
    \/ WatchEffect

WatchSpec ==
    Init /\ [][WatchNext]_vars

(***************************************************************************)
(* The search flow with the talk list shuffled at any moment.              *)
(***************************************************************************)
BrowseNext ==
    \/ SearchNext
    \/ ShuffleTalks

BrowseSpec ==
    Init /\ [][BrowseNext]_vars

(***************************************************************************)
(* The search flow against the clock, for the timing of requests.          *)
(***************************************************************************)
TimedNext ==
    \/ SearchNext
    \/ Tick

TimedSpec ==
    Init /\ [][TimedNext]_vars

(***************************************************************************)
(* Helpers of the properties.                                              *)
(***************************************************************************)
Range(seq) ==
    {seq[i] : i \in DOMAIN seq}

Occurrences(seq, x) ==
    Cardinality({i \in DOMAIN seq : seq[i] = x})

IsPermutation(a, b) ==
    /\ Len(a) = Len(b)
    /\ \A x \in Range(a) \cup Range(b) : Occurrences(a, x) = Occurrences(b, x)

SelectedByLastSearch ==
    lastOp = "complete" /\ lastDone.handled /\ lastDone.data # <<>>

(***************************************************************************)
(* C1: in every reachable state at most one search request issued by       *)
(* performSearch is in flight.                                             *)
(***************************************************************************)
C1_OneRequestInFlight ==
    Cardinality(inflight) <= 1

\* A trigger arrived while a request was in flight, and was skipped.
C1_Witness ==
    /\ Cardinality(inflight) = 1
    /\ triggerCount > 1
    /\ ~lastTrigger.issued

(***************************************************************************)
(* C2: a request is issued only once 500 ms have passed since the trigger  *)
(* that caused it, which is the last trigger before it.                    *)
(***************************************************************************)
C2_RequestsDebounced ==
    \A r \in inflight :
        r.id = lastTrigger.id => lastTrigger.at + DebounceWait <= r.at

(***************************************************************************)
(* C3: a performSearch call made while a request is in flight aborts that  *)
(* request and issues a request for the new query; once every request has  *)
(* settled with a result, the result shown is that of the latest trigger.  *)
(***************************************************************************)
C3_NewSearchAbortsEarlier ==
    /\ [][(triggerCount' > triggerCount /\ inflight # {})
            => (/\ \A r \in inflight : r.signal \in aborted'
                /\ \E r \in inflight' :
                    /\ r.id = lastTrigger'.id
                    /\ r.query = trimmedQuery(lastTrigger'.query))]_vars
    /\ [](  (inflight = {} /\ lastOp = "complete" /\ lastDone.handled)
            => lastDone.id = lastTrigger.id)

(***************************************************************************)
(* C4: after handleSearchResults ran on a non-empty result list, the       *)
(* store's talk list is a permutation of that list whose first element is  *)
(* the selected talk, and the selected talk is an element of the list.     *)
(***************************************************************************)
C4_TalksArePermutation ==
    SelectedByLastSearch
        => /\ IsPermutation(talks, lastDone.data)
           /\ selectedTalk # <<>>
           /\ talks[1] = selectedTalk[1]
           /\ selectedTalk[1] \in Range(lastDone.data)

(***************************************************************************)
(* C5 (as stated): every completed search that selects a talk appends the  *)
(* talk's transcript message to the chat log.                              *)
(***************************************************************************)
C5_EverySelectionForwarded ==
    [][SelectedByLastSearch'
        => messages' = Append(messages, transcriptMessage(selectedTalk'[1]))]_vars

(***************************************************************************)
(* C5 (amended): a completed search that selects a talk appends the talk's *)
(* transcript message (transcript, title, SDG titles; visible; role bot)   *)
(* exactly when no talk with that title was selected before in the life of *)
(* the TalkPanel instance; otherwise the chat log is left as it is.        *)
(***************************************************************************)
C5_FirstSelectionForwarded ==
    [][SelectedByLastSearch'
        => messages' =
            IF selectedTalk'[1].title \in everSelected THEN messages
            ELSE Append(messages, transcriptMessage(selectedTalk'[1]))]_vars

\* A title is selected again after the chat history was cleared: nothing is forwarded.
C5_Witness ==
    /\ SelectedByLastSearch
    /\ lastDone.id > 1
    /\ messages = <<>>
    /\ selectedTalk[1].title \in sentMessagesRef

(***************************************************************************)
(* C6: in every state between two tasks, isLoading is true exactly when a  *)
(* search of performSearch is in progress.                                 *)
(***************************************************************************)
C6_LoadingMatchesSearch ==
    /\ isLoading <=> isSearchInProgress
    /\ isLoading <=> inflight # {}

\* A cancelled request has settled and the flag went down with the search.
C6_Witness ==
    /\ lastOp = "complete"
    /\ lastDone.outcome = "cancelled"
    /\ ~isLoading

(***************************************************************************)
(* C7: a step of handleClearChat leaves the chat log empty and             *)
(* hasVisibleMessages false, and an empty log becomes non-empty only by a  *)
(* handler that sends a message.                                           *)
(***************************************************************************)
C7_ClearChatEmptiesLog ==
    [][/\ lastOp' = "clearChat" => (messages' = <<>> /\ ~hasVisibleMessages')
       /\ (messages = <<>> /\ messages' # <<>>)
            => lastOp' \in {"chat", "speech", "complete"}]_vars

\* A transcript had been forwarded into the log before the history was cleared.
C7_Witness ==
    /\ lastOp = "clearChat"
    /\ messages = <<>>
    /\ sentMessagesRef # {}

(***************************************************************************)
(* C8: the unmount cleanup aborts every request in flight, and no request  *)
(* that settles after the unmount has its results handled.                 *)
(***************************************************************************)
C8_UnmountAbortsSearch ==
    /\ lastOp = "unmount" => \A r \in inflight : r.signal \in aborted
    /\ (lastOp = "complete" /\ lastDone.unmounted) => ~lastDone.handled

(***************************************************************************)
(* C9: every request that settles with status 200, mappable results and no *)
(* cancellation has its results handled: the talk list is replaced and,    *)
(* for non-empty results, a talk of the results is selected.               *)
(***************************************************************************)
C9_OkResultsApplied ==
    (lastOp = "complete" /\ lastDone.outcome = "ok")
        => /\ lastDone.handled
           /\ lastDone.data = <<>> => talks = <<>>
           /\ lastDone.data # <<>>
                => (selectedTalk # <<>> /\ selectedTalk[1] \in Range(lastDone.data))

LiveSpec ==
    Init /\ [][Next]_vars /\ WF_vars(SettleRequest)

SearchSucceeded ==
    lastOp = "complete" /\ lastDone.outcome = "ok" /\ ~lastDone.threw

(***************************************************************************)
(* C11: a request that fails for a reason other than cancellation sets     *)
(* error to 'Error fetching talks.' and leaves talks, selectedTalk and the *)
(* chat log unchanged; a cancelled request sets no error; a search that is *)
(* not skipped resets error to null when it issues its request, so error   *)
(* is null after a search has succeeded.                                   *)
(***************************************************************************)
C11_ErrorOutcome ==
    [][/\ (lastOp' = "complete" /\ lastDone'.outcome \in Failures)
            => (error' = ErrorFetching
                /\ UNCHANGED <<talks, selectedTalk, messages>>)
       /\ (lastOp' = "complete" /\ lastDone'.outcome = "cancelled")
            => (error' = NoError /\ error = NoError)
       /\ (triggerCount' > triggerCount /\ lastTrigger'.issued)
            => error' = NoError
       /\ SearchSucceeded' => error' = NoError]_vars

\* A later search failed: the error is set and the earlier talk list is kept.
C11_Witness ==
    /\ lastOp = "complete"
    /\ lastDone.outcome \in Failures
    /\ lastDone.id > 1
    /\ error = ErrorFetching
    /\ talks # <<>>

(***************************************************************************)
(* C12: when every issued request eventually settles, a search in progress *)
(* eventually ends with isLoading and isSearchInProgress false, whatever   *)
(* its outcome; and a performSearch call made while no search is in        *)
(* progress always issues a request.                                       *)
(***************************************************************************)
C12_SearchTerminates ==
    /\ isSearchInProgress ~> (~isSearchInProgress /\ ~isLoading)
    /\ [][(triggerCount' > triggerCount /\ inflight = {})
            => (lastTrigger'.issued
                /\ \E r \in inflight' : r.id = lastTrigger'.id)]_vars

\* A search ended by an exception in the handling of its results, and the next
\* trigger issued a request.
C12_Witness ==
    /\ lastDone.threw
    /\ lastTrigger.id > lastDone.id
    /\ lastTrigger.issued
    /\ Cardinality(inflight) = 1

(***************************************************************************)
(* C13: a performSearch call made while a search is in progress issues no  *)
(* request and leaves the requests in flight, the AbortControllers, talks, *)
(* selectedTalk, error, isLoading and isSearchInProgress unchanged.        *)
(***************************************************************************)
C13_SkippedCallHasNoEffect ==
    [][(triggerCount' > triggerCount /\ isSearchInProgress)
        => /\ ~lastTrigger'.issued
           /\ UNCHANGED <<inflight, aborted, abortControllerRef, talks,
                          selectedTalk, error, isLoading, isSearchInProgress,
                          messages>>]_vars

\* Enter was pressed while the Search button was disabled, and was skipped.
C13_Witness ==
    /\ lastOp = "enter"
    /\ isLoading
    /\ ~lastTrigger.issued
    /\ \E r \in inflight : r.id < lastTrigger.id /\ r.signal \notin aborted

(***************************************************************************)
(* C14: whenever selectedTalk is set, it is an element of the store's      *)
(* current talk list.                                                      *)
(***************************************************************************)
C14_SelectedTalkInList ==
    selectedTalk # <<>> => selectedTalk[1] \in Range(talks)

(***************************************************************************)
(* C15: for every talk title, sendTranscriptAsMessage has dispatched at    *)
(* most one transcript message in the life of the TalkPanel instance, and  *)
(* the set of already-sent titles never loses a title, also when the chat  *)
(* history is cleared.                                                     *)
(***************************************************************************)
C15_OneTranscriptPerTitle ==
    /\ [](\A title \in Titles :
            /\ transcriptsSent[title] \in {0, 1}
            /\ transcriptsSent[title] = 1 <=> title \in sentMessagesRef)
    /\ [][sentMessagesRef \subseteq sentMessagesRef']_vars

\* The title sent before is selected again after the chat history was cleared.
C15_Witness ==
    /\ SelectedByLastSearch
    /\ lastDone.id > 1
    /\ messages = <<>>
    /\ transcriptsSent[selectedTalk[1].title] = 1
    /\ everSelected = {selectedTalk[1].title}

(***************************************************************************)
(* C17: every 'search_talks' span performSearch has started is open (no    *)
(* end() call) exactly while its request is in flight, and has been ended  *)
(* exactly once otherwise: after a skipped call and after the request has  *)
(* settled with success, failure or cancellation.                          *)
(***************************************************************************)
C17_SearchSpanEndedOnce ==
    /\ Len(searchSpans) = triggerCount
    /\ \A id \in 1..Len(searchSpans) :
        searchSpans[id] = IF \E r \in inflight : r.id = id THEN 0 ELSE 1

\* A skipped call and a cancelled request: both spans are ended.
C17_Witness ==
    /\ lastOp = "complete"
    /\ lastDone.outcome = "cancelled"
    /\ ~lastTrigger.issued
    /\ searchSpans = <<1, 1>>

(***************************************************************************)
(* C16: at most one 'watch_video' span is open; once the effect on         *)
(* selectedTalk has run, a span is open exactly when a talk is selected,   *)
(* and it carries this talk's attributes; no span is ended twice, every    *)
(* span but the newest is ended when the effect has run, and every span is *)
(* ended when the component is unmounted, also between the two runs of the *)
(* strict-mode replay.                                                     *)
(***************************************************************************)
OpenWatchSpans ==
    {i \in 1..Len(watchSpans) : watchSpans[i].ends = 0}

C16_WatchSpanLifecycle ==
    /\ Cardinality(OpenWatchSpans) <= 1
    /\ \A i \in 1..Len(watchSpans) : watchSpans[i].ends <= 1
    /\ OpenWatchSpans = IF activeWatchSpanRef = 0 THEN {} ELSE {activeWatchSpanRef}
    /\ (phase \in {"strictMounted", "mounted"} /\ ~watchPending)
        => /\ OpenWatchSpans # {} <=> selectedTalk # <<>>
           /\ \A i \in OpenWatchSpans :
                /\ i = Len(watchSpans)
                /\ watchSpans[i] = watchSpan(selectedTalk[1])
    /\ phase \in {"strictUnmounted", "unmounted"} => OpenWatchSpans = {}

\* The selection changed twice: the first span was ended once, the second is open.
C16_Witness ==
    /\ lastOp = "watchEffect"
    /\ Len(watchSpans) = 2
    /\ watchSpans[1].ends = 1
    /\ watchSpans[2].ends = 0
    /\ watchSpans[1].title # watchSpans[2].title
    /\ activeWatchSpanRef = 2

(***************************************************************************)
(* C18: handleChat with an empty or whitespace-only input dispatches       *)
(* nothing, starts no span and leaves the input; otherwise it dispatches   *)
(* one sendMessage with the trimmed text and starts one 'send_message'     *)
(* span; when the dispatch settles the span is ended once, the input is    *)
(* cleared if the dispatch succeeded and kept if it failed; nothing else   *)
(* but the speech handler and the user's typing empties the input.         *)
(***************************************************************************)
C18_HandleChatSubmission ==
    [][/\ (lastOp' = "chat" /\ trim(chatInput) = <<>>)
            => UNCHANGED <<messages, chatSpans, chatInput>>
       /\ (lastOp' = "chat" /\ trim(chatInput) # <<>>)
            => /\ messages' = Append(messages, userMessage(trim(chatInput)))
               /\ chatSpans' = Append(chatSpans, 0)
               /\ chatInput' = chatInput
       /\ lastOp' \in {"chatFulfilled", "chatRejected"}
            => /\ messages' = messages
               /\ \E span \in 1..Len(chatSpans) :
                    /\ chatSpans[span] = 0
                    /\ chatSpans' = [chatSpans EXCEPT ![span] = 1]
               /\ chatInput' = IF lastOp' = "chatFulfilled" THEN <<>>
                               ELSE chatInput
       /\ (chatInput # <<>> /\ chatInput' = <<>>)
            => lastOp' \in {"chatFulfilled", "speech", "setChatInput"}
       /\ \A span \in 1..Len(chatSpans') : chatSpans'[span] <= 1]_vars

\* A dispatch has failed: its span is ended, the text is still in the input.
C18_Witness ==
    /\ lastOp = "chatRejected"
    /\ trim(chatInput) # <<>>
    /\ chatSpans = <<1>>
    /\ messages = <<userMessage(trim(chatInput))>>

(***************************************************************************)
(* C19: the isFullScreen flag of the chat panel is true exactly when the   *)
(* document has a fullscreen element.                                      *)
(***************************************************************************)
C19_FullScreenFlagAgrees ==
    isFullScreen <=> fullscreenElement

(***************************************************************************)
(* C20: a render of Observability returns null and lets no exception out,  *)
(* whether the SDK's constructor or its start() throws or not, and without *)
(* a window it neither constructs nor starts the SDK.                      *)
(***************************************************************************)
C20_ObservabilityContained ==
    lastRender.rendered
        => /\ lastRender.result = "null"
           /\ ~lastRender.window
                => (~lastRender.constructed /\ ~lastRender.started)
           /\ lastRender.started => lastRender.constructed

\* In the browser, start() threw: the exception was caught, null was returned.
C20_Witness ==
    /\ lastOp = "render"
    /\ lastRender.window
    /\ lastRender.outcome = "startThrows"
    /\ lastRender.started
    /\ lastRender.result = "null"

====
